---- MODULE Spec2Model ----
(***************************************************************************)
(* A model of app.py: the batch OCR pipeline `run`, the reading-order      *)
(* reconstruction inside ocr_with_vision, and the URL extractor            *)
(* extract_urls.                                                           *)
(*                                                                         *)
(* Strings are sequences of one-character strings, so that the text        *)
(* operations of the code (regular-expression matching, rstrip,            *)
(* startswith, lower, splitext, splitlines, strip, csv quoting) are        *)
(* computed character by character, as the code computes them.             *)
(***************************************************************************)
EXTENDS Naturals, Sequences, FiniteSets, TLC

VARIABLES
    (* ---- run(in_dir, out_dir, lang_str) and its environment ---- *)
    inState,     \* the input path: "missing", "notdir" or "dir"
    scan,        \* os.scandir's enumeration of in_dir: entries in the order given
    outDir,      \* the output directory: "absent", "dir" or "blocked" (makedirs fails)
    txtDir,      \* out_dir/txt, likewise
    txt,         \* files of out_dir/txt: file name -> content
    agg,         \* aggregate files of out_dir: file name -> content
    engine,      \* the OCR engine's (deterministic) outcome per image name, once asked
    pc,          \* where run is
    imgs,        \* run's imgs
    idx,         \* number of images the for loop has finished
    all_sections,\* run's all_sections
    all_urls,    \* run's all_urls
    stdout,      \* what run printed
    err,         \* the exception run ended with: "none", "OSError", "EngineError"
    results,     \* history: [name, base, text, urls, failed] of each image this run processed
    wrote,       \* history: txt file name -> content of this run's last complete write of it
    nwrites,     \* history: number of per-image files this run wrote in full
    wroteAgg,    \* history: the aggregate files this run opened for writing
    runNo,       \* 1 for the first run, 2 for the rerun on the unchanged directory
    prev,        \* the first run's imgs and aggregate files, kept for the rerun
    (* ---- extract_urls on its own ---- *)
    uText, uUrls, uPc,
    (* ---- the reading-order reconstruction on its own ---- *)
    oResults, oText, oPc

runVars == <<inState, scan, outDir, txtDir, txt, agg, engine, pc, imgs, idx,
             all_sections, all_urls, stdout, err, results, wrote, nwrites,
             wroteAgg, runNo, prev>>
urlVars == <<uText, uUrls, uPc>>
ocrVars == <<oResults, oText, oPc>>
vars == <<runVars, urlVars, ocrVars>>

(***************************************************************************)
(* Bounds of the model.                                                    *)
(***************************************************************************)
MaxEntries == 2      \* directory entries in the input directory
MaxFrags == 3        \* fragments a text given to extract_urls is made of
MaxRegions == 2      \* text regions the engine returns for one image

(***************************************************************************)
(* Characters and strings.                                                 *)
(***************************************************************************)
NL == "\n"
\* The grave accent (U+0060); the lexer accepts no grave accent in a string.
Backtick == "<grave>"

Uppers == <<"A","B","C","D","E","F","G","H","I","J","K","L","M",
            "N","O","P","Q","R","S","T","U","V","W","X","Y","Z">>
Lowers == <<"a","b","c","d","e","f","g","h","i","j","k","l","m",
            "n","o","p","q","r","s","t","u","v","w","x","y","z">>
Digits == {"0","1","2","3","4","5","6","7","8","9"}

Range(s) == {s[i] : i \in DOMAIN s}

\* str.lower(), one character
LowerChar(c) ==
    IF \E i \in DOMAIN Uppers : Uppers[i] = c
    THEN Lowers[CHOOSE i \in DOMAIN Uppers : Uppers[i] = c]
    ELSE c

\* str.lower()
Lower(s) == [i \in DOMAIN s |-> LowerChar(s[i])]

\* \s of the regular expression, and the characters str.strip() removes
SpaceChars == {" ", "\t", NL, "\r", "\f"}
IsSpace(c) == c \in SpaceChars

\* \w of the regular expression
IsWord(c) == c \in Range(Uppers) \cup Range(Lowers) \cup Digits \cup {"_"}

\* s[i:] (i counted from 1)
From(s, i) == SubSeq(s, i, Len(s))

\* str.startswith
StartsWith(s, p) == Len(s) >= Len(p) /\ SubSeq(s, 1, Len(p)) = p

RECURSIVE Concat(_)
\* "".join(parts)
Concat(parts) ==
    IF parts = <<>> THEN <<>> ELSE Head(parts) \o Concat(Tail(parts))

RECURSIVE Join(_, _)
\* sep.join(parts)
Join(sep, parts) ==
    IF parts = <<>> THEN <<>>
    ELSE IF Len(parts) = 1 THEN parts[1]
    ELSE parts[1] \o sep \o Join(sep, Tail(parts))

(***************************************************************************)
(* URL_REGEX and extract_urls.                                             *)
(***************************************************************************)
\* the characters [^\s<>"'()] leaves out
UrlStops == SpaceChars \cup {"<", ">", "\"", "'", "(", ")"}

\* the characters [^\s<>"'] leaves out
UrlParenStops == SpaceChars \cup {"<", ">", "\"", "'"}

\* \b at the gap before t[i]
WordBoundary(t, i) ==
    LET before == i > 1 /\ i - 1 <= Len(t) /\ IsWord(t[i - 1])
        after == i <= Len(t) /\ IsWord(t[i])
    IN  before # after

\* whether the literal p (lower case) matches t at i, ignoring case: (?i)
MatchesLiteral(t, i, p) ==
    /\ i + Len(p) - 1 <= Len(t)
    /\ Lower(SubSeq(t, i, i + Len(p) - 1)) = p

\* (?:https?://|www\.) at i: the number of characters matched, 0 for none
SchemeLen(t, i) ==
    IF MatchesLiteral(t, i, <<"h","t","t","p","s",":","/","/">>) THEN 8
    ELSE IF MatchesLiteral(t, i, <<"h","t","t","p",":","/","/">>) THEN 7
    ELSE IF MatchesLiteral(t, i, <<"w","w","w",".">>) THEN 4
    ELSE 0

RECURSIVE RunEnd(_, _, _)
\* the last index of the longest run of characters outside stops that starts
\* at i (i - 1 when the run is empty): a greedy negated character class
RunEnd(stops, t, i) ==
    IF i <= Len(t) /\ t[i] \notin stops THEN RunEnd(stops, t, i + 1) ELSE i - 1

\* the end of the match of URL_REGEX's group that starts at i, 0 for no match.
\* The greedy first class takes the longest run; the parenthesised part
\* \([^\s<>"']*\)[^\s<>"']* then matches when that run is followed by "(" and
\* a ")" comes later in the same run of [^\s<>"'] characters, and takes that
\* whole run, after which no further "(" can follow.
MatchEnd(t, i) ==
    LET n == SchemeLen(t, i)
        e1 == RunEnd(UrlStops, t, i + n)
        e2 == RunEnd(UrlParenStops, t, e1 + 2)
    IN  IF ~WordBoundary(t, i) \/ n = 0 \/ e1 < i + n THEN 0
        ELSE IF /\ e1 + 1 <= Len(t)
                /\ t[e1 + 1] = "("
                /\ \E k \in (e1 + 2)..e2 : t[k] = ")"
             THEN e2
             ELSE e1

RECURSIVE FindIter(_, _)
\* URL_REGEX.finditer(text), from index i on: group 1 of each match, in order
FindIter(t, i) ==
    IF i > Len(t) THEN <<>>
    ELSE LET e == MatchEnd(t, i)
         IN  IF e = 0 THEN FindIter(t, i + 1)
             ELSE <<SubSeq(t, i, e)>> \o FindIter(t, e + 1)

RECURSIVE RStrip(_, _)
\* str.rstrip(chars)
RStrip(s, chars) ==
    IF s # <<>> /\ s[Len(s)] \in chars
    THEN RStrip(SubSeq(s, 1, Len(s) - 1), chars)
    ELSE s

TrailingPunct == {".", ",", ";", ":", "!", ")", "?", "]"}

\* the body of extract_urls's loop, for one match
NormalizeUrl(m) ==
    LET u == RStrip(m, TrailingPunct)
    IN  IF StartsWith(u, <<"w","w","w",".">>)
        THEN <<"h","t","t","p",":","/","/">> \o u
        ELSE u

extract_urls(text) ==
    LET ms == FindIter(text, 1)
    IN  [k \in DOMAIN ms |-> NormalizeUrl(ms[k])]

(***************************************************************************)
(* ocr_with_vision: the reading-order reconstruction.  An observation is   *)
(* [y, x, cands]: the origin of its bounding box (normalized coordinates,  *)
(* here small integers: only their order matters) and topCandidates_(1),   *)
(* a list of at most one string.                                           *)
(***************************************************************************)
\* _key(a) < _key(b) for _key(obs) = (-bb.origin.y, bb.origin.x)
KeyLess(a, b) == a.y > b.y \/ (a.y = b.y /\ a.x < b.x)

RECURSIVE InsertSorted(_, _)
\* obs put into the sorted list s behind every element whose key is not greater
InsertSorted(s, obs) ==
    IF s = <<>> THEN <<obs>>
    ELSE IF KeyLess(obs, Head(s)) THEN <<obs>> \o s
    ELSE <<Head(s)>> \o InsertSorted(Tail(s), obs)

RECURSIVE SortByKey(_)
\* results.sort(key=_key): list.sort is stable, equal keys keep their order
SortByKey(s) ==
    IF s = <<>> THEN <<>>
    ELSE InsertSorted(SortByKey(SubSeq(s, 1, Len(s) - 1)), s[Len(s)])

\* the strings the loop over the sorted results appends to lines
CandidateLines(s) ==
    LET keep == SelectSeq(s, LAMBDA obs : obs.cands # <<>> /\ obs.cands[1] # <<>>)
    IN  [k \in DOMAIN keep |-> keep[k].cands[1]]

\* lines 73-88 of ocr_with_vision: sort, take the best candidates, join
ReadingOrderText(res) == Join(<<NL>>, CandidateLines(SortByKey(res)))

\* ocr_with_vision for an engine outcome that does not raise: [kind, obs] with
\* kind "unreadable" (cgimage_from_path gives None), "error" (performRequests
\* reports not ok) or "ok"
ocr_with_vision(o) ==
    IF o.kind = "unreadable" THEN <<>>
    ELSE IF o.kind = "error" THEN <<>>
    ELSE ReadingOrderText(o.obs)

(***************************************************************************)
(* list_images.  A directory entry is [name, isFile]; entry.path is        *)
(* in_dir/name, so os.path.basename(entry.path) is name.                   *)
(***************************************************************************)
\* the printable ASCII characters in code-point order, from U+0020 on
Ascii ==
    <<" ","!","\"","#","$","%","&","'","(",")","*","+",",","-",".","/",
      "0","1","2","3","4","5","6","7","8","9",":",";","<","=",">","?","@",
      "A","B","C","D","E","F","G","H","I","J","K","L","M","N","O","P","Q",
      "R","S","T","U","V","W","X","Y","Z","[","\\","]","^","_",Backtick,
      "a","b","c","d","e","f","g","h","i","j","k","l","m","n","o","p","q",
      "r","s","t","u","v","w","x","y","z","{","|","}","~">>

\* the rank of a character in code-point order
Ord(c) == CHOOSE i \in DOMAIN Ascii : Ascii[i] = c

RECURSIVE StrLess(_, _)
\* a < b for str: lexicographic by code point
StrLess(a, b) ==
    IF b = <<>> THEN FALSE
    ELSE IF a = <<>> THEN TRUE
    ELSE IF Head(a) # Head(b) THEN Ord(Head(a)) < Ord(Head(b))
    ELSE StrLess(Tail(a), Tail(b))

\* str.rfind("."), 0 when there is none
LastDot(n) ==
    IF \E i \in DOMAIN n : n[i] = "."
    THEN CHOOSE i \in DOMAIN n : n[i] = "." /\ \A j \in (i + 1)..Len(n) : n[j] # "."
    ELSE 0

\* os.path.splitext(name): <<root, ext>>.  The extension starts at the last
\* dot, unless only dots come before it.
SplitExt(n) ==
    LET d == LastDot(n)
    IN  IF d > 0 /\ \E k \in 1..(d - 1) : n[k] # "."
        THEN <<SubSeq(n, 1, d - 1), From(n, d)>>
        ELSE <<n, <<>>>>

SUPPORTED_EXTS ==
    { <<".","p","n","g">>, <<".","j","p","g">>, <<".","j","p","e","g">>,
      <<".","t","i","f">>, <<".","t","i","f","f">>, <<".","b","m","p">>,
      <<".","g","i","f">>, <<".","h","e","i","c">> }

\* list_images's test without its check for hidden files
Listed_HiddenKept(entry) ==
    /\ entry.isFile
    /\ Lower(SplitExt(entry.name)[2]) \in SUPPORTED_EXTS

\* the test of list_images's loop: does the entry go into files?
Listed(entry) ==
    /\ entry.isFile
    /\ ~StartsWith(entry.name, <<".">>)
    /\ Lower(SplitExt(entry.name)[2]) \in SUPPORTED_EXTS

RECURSIVE InsertByName(_, _)
\* name put into the sorted list s behind every element whose key
\* os.path.basename(p).lower() is not greater
InsertByName(s, name) ==
    IF s = <<>> THEN <<name>>
    ELSE IF StrLess(Lower(name), Lower(Head(s))) THEN <<name>> \o s
    ELSE <<Head(s)>> \o InsertByName(Tail(s), name)

RECURSIVE SortFiles(_)
\* files.sort(key=lambda p: os.path.basename(p).lower()), a stable sort
SortFiles(s) ==
    IF s = <<>> THEN <<>>
    ELSE InsertByName(SortFiles(SubSeq(s, 1, Len(s) - 1)), s[Len(s)])

\* list_images(in_dir), for in_dir in state st enumerated as entries
list_images(st, entries) ==
    IF st # "dir" THEN <<>>
    ELSE LET kept == SelectSeq(entries, Listed)
         IN  SortFiles([k \in DOMAIN kept |-> kept[k].name])

(***************************************************************************)
(* The texts run builds.                                                   *)
(***************************************************************************)
\* os.path.splitext(os.path.basename(p))[0]
BaseOf(name) == SplitExt(name)[1]

\* base + ".txt", the name of the per-image file in out_dir/txt
TxtName(base) == base \o <<".","t","x","t">>

Fence == <<Backtick, Backtick, Backtick>>
LinksLabel ==
    <<"*","*","L","i","n","k","s"," ","d","e","t","e","c","t","e","d",":","*","*">>
Rule == <<NL, NL, "-", "-", "-", NL, NL>>

\* the section of one image (lines 135-137)
SectionOf(base, text, urls) ==
    <<"#","#"," ">> \o base \o <<NL, NL>> \o Fence \o <<NL>> \o text
        \o <<NL>> \o Fence \o <<NL>>
        \o (IF urls # <<>>
            THEN <<NL>> \o LinksLabel \o <<NL>>
                 \o Join(<<NL>>, [k \in DOMAIN urls |-> <<"-"," ">> \o urls[k]])
                 \o <<NL>>
            ELSE <<>>)

\* combined_md (line 142)
CombinedMd(sections) ==
    <<"#"," ","O","C","R"," ","O","u","t","p","u","t",NL,NL>>
        \o Join(Rule, sections) \o <<NL>>

\* the line boundaries str.splitlines() breaks at, among the characters here
LineBreaks == {NL, "\r", "\f"}

RECURSIVE SplitLines(_)
\* str.splitlines(): "\r\n" is one boundary, and a boundary at the very end
\* opens no further line
SplitLines(s) ==
    IF s = <<>> THEN <<>>
    ELSE LET e == RunEnd(LineBreaks, s, 1)
             skip == IF /\ e + 2 <= Len(s)
                        /\ s[e + 1] = "\r"
                        /\ s[e + 2] = NL
                     THEN 2 ELSE 1
         IN  <<SubSeq(s, 1, e)>> \o SplitLines(From(s, e + skip + 1))

RECURSIVE LStrip(_)
LStrip(s) == IF s # <<>> /\ IsSpace(Head(s)) THEN LStrip(Tail(s)) ELSE s

\* str.strip()
Strip(s) == LStrip(RStrip(s, {c \in Range(s) : IsSpace(c)}))

\* whether the loop of lines 149-152 drops the line
IsFraming(ln) == StartsWith(ln, Fence) \/ StartsWith(ln, LinksLabel)

\* one element of plain_blocks (lines 148-153)
PlainBlock(section) ==
    Strip(Join(<<NL>>, SelectSeq(SplitLines(section), LAMBDA ln : ~IsFraming(ln))))

\* the content of all_text.txt (lines 146-154)
PlainText(sections) ==
    Join(Rule, [k \in DOMAIN sections |-> PlainBlock(sections[k])]) \o <<NL>>

\* the loop of lines 156-161 with seen never added to: every URL is kept
Dedup_SeenNeverUpdated(pairs, seen) ==
    LET kept == SelectSeq(pairs, LAMBDA pr : pr[2] \notin seen)
    IN  [k \in DOMAIN kept |-> kept[k][2]]

RECURSIVE Dedup(_, _)
\* dedup_urls (lines 156-161), for the pairs of all_urls from the first on,
\* seen being the set of urls met so far
Dedup(pairs, seen) ==
    IF pairs = <<>> THEN <<>>
    ELSE LET u == Head(pairs)[2]
         IN  IF u \notin seen
             THEN <<u>> \o Dedup(Tail(pairs), seen \cup {u})
             ELSE Dedup(Tail(pairs), seen)

\* the content of urls.txt (line 162)
UrlsTxt(pairs) ==
    LET d == Dedup(pairs, {})
    IN  Join(<<NL>>, d) \o (IF d # <<>> THEN <<NL>> ELSE <<>>)

\* the characters that make csv.writer quote a field (QUOTE_MINIMAL, excel
\* dialect): the delimiter, the quote character, and those of the line
\* terminator
CsvSpecial == {",", "\"", "\r", NL}

\* a field written as it is, as ",".join(row) would
CsvField_Unquoted(s) == s

\* one field as csv.writer writes it: quoted when it must be, quotes doubled
CsvField(s) ==
    IF \E i \in DOMAIN s : s[i] \in CsvSpecial
    THEN <<"\"">>
         \o Concat([i \in DOMAIN s |-> IF s[i] = "\"" THEN <<"\"", "\"">> ELSE <<s[i]>>])
         \o <<"\"">>
    ELSE s

\* w.writerow(row)
CsvRow(row) ==
    Join(<<",">>, [k \in DOMAIN row |-> CsvField(row[k])]) \o <<"\r", NL>>

\* the content of urls.csv (lines 164-168)
UrlsCsv(pairs) ==
    CsvRow(<<<<"f","i","l","e">>, <<"u","r","l">>>>)
        \o Concat([k \in DOMAIN pairs |-> CsvRow(pairs[k])])

(***************************************************************************)
(* The environment of run: the input directory, the OCR engine, the files. *)
(***************************************************************************)
SeqsUpTo(S, n) == UNION {[1..k -> S] : k \in 0..n}

\* the orderings of the list s
Orderings(s) ==
    LET n == Len(s)
        bij == {f \in [1..n -> 1..n] : \A i, j \in 1..n : i # j => f[i] # f[j]}
    IN  {[i \in 1..n |-> s[f[i]]] : f \in bij}

\* the directory entries the input directory is made of
EntryPool ==
    { [name |-> <<"a",".","p","n","g">>, isFile |-> TRUE],
      [name |-> <<"A",".","p","n","g">>, isFile |-> TRUE],
      [name |-> <<"a",".","j","p","g">>, isFile |-> TRUE],
      [name |-> <<"b",",","c",".","P","N","G">>, isFile |-> TRUE],
      [name |-> <<".","h",".","p","n","g">>, isFile |-> TRUE],
      [name |-> <<"n",".","t","x","t">>, isFile |-> TRUE],
      [name |-> <<"d",".","g","i","f">>, isFile |-> FALSE] }

\* the enumerations of a directory of up to MaxEntries entries
Scans ==
    {s \in SeqsUpTo(EntryPool, MaxEntries) :
        \A i, j \in DOMAIN s : i # j => s[i].name # s[j].name}

\* what the engine may do with an image: the image cannot be read, the
\* request reports an error, the call raises, or it returns observations
EnginePool ==
    { [kind |-> "unreadable", obs |-> <<>>],
      [kind |-> "error", obs |-> <<>>],
      [kind |-> "raise", obs |-> <<>>],
      [kind |-> "ok", obs |->
          << [y |-> 0, x |-> 0, cands |-> <<<<"w","w","w",".","b",",">>>>],
             [y |-> 1, x |-> 0, cands |-> <<<<"h","t","t","p",":","/","/","a",",","b">>>>] >>],
      [kind |-> "ok", obs |->
          << [y |-> 0, x |-> 0, cands |->
                <<<<"w","w","w",".","b"," ","h","t","t","p",":","/","/","a",",","b",
                    " ","w","w","w",".","b">>>>] >>],
      [kind |-> "ok", obs |->
          << [y |-> 0, x |-> 0, cands |-> <<<<"h","i">>>>],
             [y |-> 1, x |-> 0, cands |-> <<Fence>>] >>] }

\* f with file (or key) k set to v
Put(f, k, v) == (k :> v) @@ f

\* write_text(path, content) on the files f, and the with-open block of
\* urls.csv: what may come of it.  open(path, "w") may fail and leave the
\* files as they were; once it has truncated the file, the write may fail
\* with nothing on disk yet, or the error may come with the content written
\* (the content is far below the buffer size, so it reaches the disk in one
\* piece or not at all).
WriteOutcomes(f, name, content) ==
    { [ok |-> TRUE, opened |-> TRUE, fs |-> Put(f, name, content)],
      [ok |-> FALSE, opened |-> FALSE, fs |-> f],
      [ok |-> FALSE, opened |-> TRUE, fs |-> Put(f, name, <<>>)],
      [ok |-> FALSE, opened |-> TRUE, fs |-> Put(f, name, content)] }

AllTextMd == "all_text.md"
AllTextTxt == "all_text.txt"
UrlsTxtFile == "urls.txt"
UrlsCsvFile == "urls.csv"

IdleUrl == uText = <<>> /\ uUrls = <<>> /\ uPc = "idle"
IdleOcr == oResults = <<>> /\ oText = <<>> /\ oPc = "idle"

(***************************************************************************)
(* run(in_dir, out_dir, lang_str), step by step.  The language tags only   *)
(* reach the engine, whose outcome per image is a given here.              *)
(***************************************************************************)
Init ==
    /\ inState \in {"missing", "notdir", "dir"}
    /\ scan \in IF inState = "dir" THEN Scans ELSE {<<>>}
    /\ outDir \in {"absent", "dir", "blocked"}
    /\ txtDir \in IF outDir = "dir" THEN {"absent", "blocked"} ELSE {"absent"}
    /\ txt = <<>> /\ agg = <<>> /\ engine = <<>>
    /\ pc = "start"
    /\ imgs = <<>> /\ idx = 0 /\ all_sections = <<>> /\ all_urls = <<>>
    /\ stdout = <<>> /\ err = "none"
    /\ results = <<>> /\ wrote = <<>> /\ nwrites = 0 /\ wroteAgg = {}
    /\ runNo = 1 /\ prev = <<>>
    /\ IdleUrl /\ IdleOcr

\* the variables no step of run changes
envVars == <<inState, scan, runNo, prev, urlVars, ocrVars>>

\* lines 107-108: ensure_dir(out_dir)
EnsureOutDir ==
    /\ pc = "start"
    /\ IF outDir = "blocked"
       THEN pc' = "failed" /\ err' = "OSError" /\ UNCHANGED outDir
       ELSE pc' = "list" /\ outDir' = "dir" /\ UNCHANGED err
    /\ UNCHANGED <<txtDir, txt, agg, engine, imgs, idx, all_sections, all_urls,
                   stdout, results, wrote, nwrites, wroteAgg, envVars>>

\* lines 110-113: list_images, and the return when there is no image
ListImages ==
    /\ pc = "list"
    /\ imgs' = list_images(inState, scan)
    /\ IF imgs' = <<>>
       THEN pc' = "done" /\ stdout' = Append(stdout, [msg |-> "No images found."])
       ELSE pc' = "mktxt" /\ UNCHANGED stdout
    /\ UNCHANGED <<outDir, txtDir, txt, agg, engine, idx, all_sections, all_urls,
                   err, results, wrote, nwrites, wroteAgg, envVars>>

\* lines 120-123: the accumulators and ensure_dir(txt_dir)
EnsureTxtDir ==
    /\ pc = "mktxt"
    /\ all_sections' = <<>> /\ all_urls' = <<>>
    /\ IF txtDir = "blocked"
       THEN pc' = "failed" /\ err' = "OSError" /\ UNCHANGED txtDir
       ELSE pc' = "loop" /\ txtDir' = "dir" /\ UNCHANGED err
    /\ UNCHANGED <<outDir, txt, agg, engine, imgs, idx, stdout, results, wrote,
                   nwrites, wroteAgg, envVars>>

\* the outcomes the engine may give for image p: the one it gave before, the
\* engine being deterministic, or any when p is asked for the first time
OutcomesFor(p) == IF p \in DOMAIN engine THEN {engine[p]} ELSE EnginePool

\* lines 125-140: one round of the for loop
ProcessImage ==
    /\ pc = "loop" /\ idx < Len(imgs)
    /\ LET p == imgs[idx + 1]
           base == BaseOf(p)
       IN  \E o \in OutcomesFor(p) :
             /\ engine' = Put(engine, p, o)
             /\ IF o.kind = "raise"
                THEN /\ pc' = "failed" /\ err' = "EngineError"
                     /\ UNCHANGED <<txt, idx, all_sections, all_urls, stdout,
                                    results, wrote, nwrites>>
                ELSE LET text == ocr_with_vision(o)
                         urls == extract_urls(text)
                     IN  \E w \in WriteOutcomes(txt, TxtName(base), text) :
                           /\ txt' = w.fs
                           /\ IF w.ok
                              THEN /\ all_urls' = all_urls
                                        \o [k \in DOMAIN urls |-> <<base, urls[k]>>]
                                   /\ all_sections' =
                                        Append(all_sections, SectionOf(base, text, urls))
                                   /\ stdout' = Append(stdout,
                                        [msg |-> "OCR", image |-> p, path |-> TxtName(base),
                                         chars |-> Len(text), links |-> Len(urls)])
                                   /\ idx' = idx + 1
                                   /\ results' = Append(results,
                                        [name |-> p, base |-> base, text |-> text,
                                         urls |-> urls, failed |-> o.kind # "ok"])
                                   /\ wrote' = Put(wrote, TxtName(base), text)
                                   /\ nwrites' = nwrites + 1
                                   /\ UNCHANGED <<pc, err>>
                              ELSE /\ pc' = "failed" /\ err' = "OSError"
                                   /\ UNCHANGED <<idx, all_sections, all_urls, stdout,
                                                  results, wrote, nwrites>>
    /\ UNCHANGED <<outDir, txtDir, agg, imgs, wroteAgg, envVars>>

\* the writing of one aggregate file, after which run is at `next`
WriteAggregate(at, name, content, next) ==
    /\ pc = at
    /\ \E w \in WriteOutcomes(agg, name, content) :
         /\ agg' = w.fs
         /\ wroteAgg' = IF w.opened THEN wroteAgg \cup {name} ELSE wroteAgg
         /\ IF w.ok
            THEN pc' = next /\ UNCHANGED err
            ELSE pc' = "failed" /\ err' = "OSError"
    /\ UNCHANGED <<outDir, txtDir, txt, engine, imgs, idx, all_sections, all_urls,
                   stdout, results, wrote, nwrites, envVars>>

\* lines 142-143, reached when the for loop is through
WriteMd ==
    /\ idx = Len(imgs)
    /\ WriteAggregate("loop", AllTextMd, CombinedMd(all_sections), "plain")

\* lines 145-154
WritePlain == WriteAggregate("plain", AllTextTxt, PlainText(all_sections), "urls")

\* lines 156-162
WriteUrlsTxt == WriteAggregate("urls", UrlsTxtFile, UrlsTxt(all_urls), "csv")

\* lines 164-168
WriteUrlsCsv == WriteAggregate("csv", UrlsCsvFile, UrlsCsv(all_urls), "summary")

\* lines 170-178
PrintSummary ==
    /\ pc = "summary"
    /\ stdout' = Append(stdout, [msg |-> "Done", images |-> Len(imgs)])
    /\ pc' = "done"
    /\ UNCHANGED <<outDir, txtDir, txt, agg, engine, imgs, idx, all_sections,
                   all_urls, err, results, wrote, nwrites, wroteAgg, envVars>>

\* the program is run a second time on the unchanged input directory and the
\* same output directory; the file system may enumerate the entries in
\* another order
Rerun ==
    /\ pc = "done" /\ runNo = 1
    /\ runNo' = 2
    /\ prev' = [imgs |-> imgs, agg |-> agg]
    /\ scan' \in Orderings(scan)
    /\ pc' = "start"
    /\ imgs' = <<>> /\ idx' = 0 /\ all_sections' = <<>> /\ all_urls' = <<>>
    /\ stdout' = <<>> /\ err' = "none"
    /\ results' = <<>> /\ wrote' = <<>> /\ nwrites' = 0 /\ wroteAgg' = {}
    /\ UNCHANGED <<inState, outDir, txtDir, txt, agg, engine, urlVars, ocrVars>>

Next ==
    \/ EnsureOutDir
    \/ ListImages
    \/ EnsureTxtDir
    \/ ProcessImage
    \/ WriteMd
    \/ WritePlain
    \/ WriteUrlsTxt
    \/ WriteUrlsCsv
    \/ PrintSummary
    \/ Rerun

Spec == Init /\ [][Next]_vars

(***************************************************************************)
(* extract_urls on its own: the text is made of up to MaxFrags fragments.  *)
(***************************************************************************)

UrlFrags ==
    { <<"h","t","t","p",":","/","/">>, <<"h","t","t","p","s",":","/","/">>,
      <<"H","T","T","P",":","/","/">>, <<"w","w","w",".">>, <<"W","W","W",".">>,
      <<"a">>, <<".">>, <<",">>, <<"(">>, <<")">>, <<" ">>, <<"x","w","w","w",".">> }

IdleRun ==
    /\ inState = "missing" /\ scan = <<>> /\ outDir = "absent" /\ txtDir = "absent"
    /\ txt = <<>> /\ agg = <<>> /\ engine = <<>> /\ pc = "idle" /\ imgs = <<>>
    /\ idx = 0 /\ all_sections = <<>> /\ all_urls = <<>> /\ stdout = <<>>
    /\ err = "none" /\ results = <<>> /\ wrote = <<>> /\ nwrites = 0
    /\ wroteAgg = {} /\ runNo = 1 /\ prev = <<>>

InitUrl ==
    /\ uText \in {Concat(fs) : fs \in SeqsUpTo(UrlFrags, MaxFrags)}
    /\ uUrls = <<>>
    /\ uPc = "call"
    /\ IdleRun /\ IdleOcr

ExtractUrls ==
    /\ uPc = "call"
    /\ uUrls' = extract_urls(uText)
    /\ uPc' = "returned"
    /\ UNCHANGED <<uText, runVars, ocrVars>>

NextUrl == ExtractUrls
SpecUrl == InitUrl /\ [][NextUrl]_vars

(***************************************************************************)
(* The reconstruction on its own: the engine returns up to MaxRegions      *)
(* observations, in an order of its choosing.                              *)
(***************************************************************************)
Coords == {0, 1}
Observations ==
    [y : Coords, x : Coords, cands : {<<>>, <<<<>>>>, <<<<"a">>>>, <<<<"b">>>>}]

InitOcr ==
    /\ oResults \in SeqsUpTo(Observations, MaxRegions)
    /\ oText = <<>>
    /\ oPc = "call"
    /\ IdleRun /\ IdleUrl

Reconstruct ==
    /\ oPc = "call"
    /\ oText' = ReadingOrderText(oResults)
    /\ oPc' = "returned"
    /\ UNCHANGED <<oResults, runVars, urlVars>>

NextOcr == Reconstruct
SpecOcr == InitOcr /\ [][NextOcr]_vars

(***************************************************************************)
(* What the claims about run speak of.                                     *)
(***************************************************************************)
\* run has returned normally after processing images
Completed == pc = "done" /\ imgs # <<>>

RECURSIVE OccurrencesOf(_)
\* the URL occurrences <<base, url>> of the images processed, image by image
\* and, within an image, in order of appearance
OccurrencesOf(rs) ==
    IF rs = <<>> THEN <<>>
    ELSE [k \in DOMAIN Head(rs).urls |-> <<Head(rs).base, Head(rs).urls[k]>>]
         \o OccurrencesOf(Tail(rs))

Occurrences == OccurrencesOf(results)
OccurrenceUrls == [k \in DOMAIN Occurrences |-> Occurrences[k][2]]

\* the position of the first occurrence of u in the list s
FirstIndex(s, u) == CHOOSE i \in DOMAIN s : s[i] = u /\ \A j \in 1..(i - 1) : s[j] # u

RECURSIVE SplitAt(_, _)
\* s cut at every character c: the pieces between them
SplitAt(s, c) ==
    IF \E i \in DOMAIN s : s[i] = c
    THEN LET i == CHOOSE i \in DOMAIN s : s[i] = c /\ \A j \in 1..(i - 1) : s[j] # c
         IN  <<SubSeq(s, 1, i - 1)>> \o SplitAt(From(s, i + 1), c)
    ELSE <<s>>

\* the lines of a text file in which every line ends with a newline
FileLines(content) ==
    IF content = <<>> THEN <<>>
    ELSE SplitAt(SubSeq(content, 1, Len(content) - 1), NL)

RECURSIVE Unquote(_)
\* the inside of a quoted CSV field with every doubled quote made one
Unquote(q) ==
    IF q = <<>> THEN <<>>
    ELSE IF Head(q) = "\"" /\ Len(q) >= 2
    THEN <<"\"">> \o Unquote(From(q, 3))
    ELSE <<Head(q)>> \o Unquote(Tail(q))

\* the CSV field of s that starts at i: [field, next], next being the index
\* behind it.  A quoted field ends at the first quote that is neither the
\* first nor the second of a doubled quote; what follows the closing quote
\* up to the next separator belongs to the field.
CsvFieldAt(s, i) ==
    LET plainEnd(k) == RunEnd({",", "\r", NL}, s, k)
        closing(j) ==
            /\ s[j] = "\""
            /\ Cardinality({k \in (i + 1)..j : s[k] = "\""}) % 2 = 1
            /\ (j = Len(s) \/ s[j + 1] # "\"")
    IN  IF i <= Len(s) /\ s[i] = "\""
        THEN IF \E j \in (i + 1)..Len(s) : closing(j)
             THEN LET j == CHOOSE j \in (i + 1)..Len(s) :
                               closing(j) /\ \A k \in (i + 1)..(j - 1) : ~closing(k)
                      e == plainEnd(j + 1)
                  IN  [field |-> Unquote(SubSeq(s, i + 1, j - 1)) \o SubSeq(s, j + 1, e),
                       next |-> e + 1]
             ELSE [field |-> Unquote(From(s, i + 1)), next |-> Len(s) + 1]
        ELSE [field |-> SubSeq(s, i, plainEnd(i)), next |-> plainEnd(i) + 1]

RECURSIVE CsvRows(_, _, _)
\* a CSV reader: the rows of s from index i on, row being the fields read of
\* the current row
CsvRows(s, i, row) ==
    IF i > Len(s) THEN IF row = <<>> THEN <<>> ELSE <<Append(row, <<>>)>>
    ELSE LET f == CsvFieldAt(s, i)
             n == f.next
             done == Append(row, f.field)
         IN  IF n > Len(s) THEN <<done>>
             ELSE IF s[n] = "," THEN CsvRows(s, n + 1, done)
             ELSE IF s[n] = "\r" /\ n < Len(s) /\ s[n + 1] = NL
                  THEN <<done>> \o CsvRows(s, n + 2, <<>>)
             ELSE <<done>> \o CsvRows(s, n + 1, <<>>)

\* the rows of a CSV file
CsvRead(s) == CsvRows(s, 1, <<>>)

\* str.endswith
EndsWith(s, p) == Len(s) >= Len(p) /\ From(s, Len(s) - Len(p) + 1) = p

\* an eligible image: a regular file, not hidden, whose name ends, in any
\* letter case, with a supported extension
EligibleImage(entry) ==
    /\ entry.isFile
    /\ entry.name # <<>> /\ Head(entry.name) # "."
    /\ \E ext \in SUPPORTED_EXTS : EndsWith(Lower(entry.name), ext)

\* the input directory is missing, is no directory, or holds no eligible image
NoEligibleImage ==
    inState # "dir" \/ \A i \in DOMAIN scan : ~EligibleImage(scan[i])

\* none of the artifacts is on disk, and this run wrote to none
NoArtifacts ==
    /\ DOMAIN txt = {} /\ DOMAIN agg = {}
    /\ wrote = <<>> /\ wroteAgg = {} /\ txtDir # "dir"

NoImagesMessage == [msg |-> "No images found."]

\* the section of an image as all_text.md has it, without its two fence lines
\* and its Links-detected label line
SectionContent(r) ==
    <<<<"#","#"," ">> \o r.base, <<>>>> \o SplitAt(r.text, NL)
        \o (IF r.urls # <<>>
            THEN <<<<>>>> \o [k \in DOMAIN r.urls |-> <<"-"," ">> \o r.urls[k]]
            ELSE <<>>)

(***************************************************************************)
(* C1: an image whose OCR fails (unreadable image, an error reported by    *)
(* the engine call, or the call raising) does not abort the batch: it      *)
(* counts as empty text and zero URLs, its txt file is written empty, its  *)
(* section has an empty fenced block and no links list, the later images   *)
(* are processed and the four aggregate files are written.                 *)
(***************************************************************************)
C1_OcrFailureIsolated ==
    /\ err # "EngineError"
    /\ \A k \in DOMAIN results :
         results[k].failed =>
            /\ results[k].text = <<>> /\ results[k].urls = <<>>
            /\ all_sections[k] = SectionOf(results[k].base, <<>>, <<>>)
    /\ Completed =>
         /\ Len(results) = Len(imgs)
         /\ DOMAIN agg = {AllTextMd, AllTextTxt, UrlsTxtFile, UrlsCsvFile}

(***************************************************************************)
(* C2: after a completed run the lines of urls.txt are the distinct URLs   *)
(* of the run's occurrences, each once, in the order of their first        *)
(* occurrence; the file is empty when there is no URL and ends with a      *)
(* newline only when it is not empty.                                      *)
(***************************************************************************)
C2_UrlsTxtFirstSeen ==
    Completed =>
        LET content == agg[UrlsTxtFile]
            lines == FileLines(content)
            occ == OccurrenceUrls
        IN  /\ content = Concat([k \in DOMAIN lines |-> lines[k] \o <<NL>>])
            /\ \A i, j \in DOMAIN lines : i # j => lines[i] # lines[j]
            /\ Range(lines) = Range(occ)
            /\ \A i, j \in DOMAIN lines :
                 i < j => FirstIndex(occ, lines[i]) < FirstIndex(occ, lines[j])
            /\ (occ = <<>> => content = <<>>)

\* a completed run of two images in which the second image repeats a URL of
\* the first and has one the first has not
C2_Witness ==
    /\ Completed /\ Len(results) = 2
    /\ \E u \in Range(results[2].urls) : u \in Range(results[1].urls)
    /\ Cardinality(Range(OccurrenceUrls)) >= 2
    /\ Len(OccurrenceUrls) > Cardinality(Range(OccurrenceUrls))

(***************************************************************************)
(* C3: after a completed run urls.csv is the header row file,url followed  *)
(* by one row per URL occurrence, duplicates kept, each with the base name *)
(* of its image, in processing order and then order of appearance.         *)
(***************************************************************************)
C3_UrlsCsvEveryOccurrence ==
    Completed =>
        CsvRead(agg[UrlsCsvFile])
            = <<<<<<"f","i","l","e">>, <<"u","r","l">>>>>> \o Occurrences

\* a completed run with the same URL twice from one image, occurrences from
\* two images, and a base name that has a comma in it
C3_Witness ==
    /\ Completed
    /\ \E i, j \in DOMAIN Occurrences : i < j /\ Occurrences[i] = Occurrences[j]
    /\ \E i, j \in DOMAIN Occurrences : Occurrences[i][1] # Occurrences[j][1]
    /\ \E i \in DOMAIN Occurrences : "," \in Range(Occurrences[i][1])

(***************************************************************************)
(* C4: two runs over the same input directory, with the same OCR result    *)
(* per image, process the images in the same order and write the same      *)
(* all_text.md, all_text.txt, urls.txt and urls.csv, whatever order the    *)
(* file system enumerates the entries in.                                  *)
(***************************************************************************)
C4_RerunIdentical ==
    (runNo = 2 /\ pc = "done") => imgs = prev.imgs /\ agg = prev.agg

(***************************************************************************)
(* C7: after a completed run over n images, txt/ holds n files written by  *)
(* this run, one per image, each with the recognized text of its own       *)
(* image; no image's file is overwritten by another image of the run.      *)
(***************************************************************************)
C7_OneTextFilePerImage ==
    Completed =>
        /\ Cardinality(DOMAIN wrote) = Len(imgs)
        /\ \A k \in DOMAIN results :
             /\ TxtName(results[k].base) \in DOMAIN txt
             /\ txt[TxtName(results[k].base)] = results[k].text

(***************************************************************************)
(* C8: when creating a directory or writing an artifact fails, run ends    *)
(* with the error propagated, writes no further artifact, prints no final  *)
(* summary, and the per-image text files written before the failure are    *)
(* still on disk with their content unchanged.                             *)
(***************************************************************************)
C8_WriteFailureSurfaces ==
    (pc = "failed" /\ err = "OSError") =>
        /\ \A k \in DOMAIN stdout : stdout[k].msg # "Done"
        /\ UrlsCsvFile \in wroteAgg => UrlsTxtFile \in wroteAgg
        /\ UrlsTxtFile \in wroteAgg => AllTextTxt \in wroteAgg
        /\ AllTextTxt \in wroteAgg => AllTextMd \in wroteAgg
        /\ \A n \in DOMAIN wrote : n \in DOMAIN txt /\ txt[n] = wrote[n]

(***************************************************************************)
(* C9, as claimed: when the input directory is missing, is no directory or *)
(* holds no eligible image, run ends gracefully whatever the state of the  *)
(* output directory: the no-images message is its only output, no artifact *)
(* is written and no error is raised.                                      *)
(***************************************************************************)
C9_NoImagesAlwaysGraceful ==
    (NoEligibleImage /\ pc \in {"done", "failed"}) =>
        /\ pc = "done" /\ err = "none"
        /\ stdout = <<NoImagesMessage>>
        /\ NoArtifacts

(***************************************************************************)
(* C9, amended: in that case, when the output directory exists or can be   *)
(* created, run prints the no-images message as its only output, writes no *)
(* artifact and raises no error; when the output directory cannot be       *)
(* created, the error of ensure_dir(out_dir) propagates before the input   *)
(* directory is looked at, and nothing is printed or written.              *)
(***************************************************************************)
C9_NoImagesGracefulIfOutDir ==
    (NoEligibleImage /\ pc \in {"done", "failed"}) =>
        /\ NoArtifacts
        /\ outDir # "blocked" =>
             pc = "done" /\ err = "none" /\ stdout = <<NoImagesMessage>>
        /\ outDir = "blocked" =>
             pc = "failed" /\ err = "OSError" /\ stdout = <<>>

\* run has returned from an input directory that has entries, none eligible,
\* one of them a hidden file with a supported extension
C9_Witness ==
    /\ pc = "done" /\ inState = "dir" /\ NoEligibleImage
    /\ \E i \in DOMAIN scan : scan[i].isFile /\ Head(scan[i].name) = "."
    /\ stdout = <<NoImagesMessage>>

(***************************************************************************)
(* C10: after a completed run all_text.txt has one block per image, in the *)
(* order and with the separator of all_text.md, each block being the       *)
(* markdown section without its two fence lines and its Links-detected     *)
(* label line: the heading, every line of the recognized text, the URL     *)
(* bullets.  (Blocks are compared without the white space around them,     *)
(* which the code strips.)                                                 *)
(***************************************************************************)
C10_PlainMatchesMarkdown ==
    Completed =>
        agg[AllTextTxt] =
            Join(Rule, [k \in DOMAIN results |->
                            Strip(Join(<<NL>>, SectionContent(results[k])))])
                \o <<NL>>

(***************************************************************************)
(* C5: for every set of recognized regions and every two orders the engine *)
(* may return it in, the reconstruction gives the same text block, also    *)
(* when two regions with different text share one origin.                  *)
(***************************************************************************)
C5_OrderIndependent ==
    oPc = "returned" =>
        \A other \in Orderings(oResults) : ReadingOrderText(other) = oText

(***************************************************************************)
(* C6: every string extract_urls returns begins with http:// or https://.  *)
(***************************************************************************)
C6_ExplicitScheme ==
    uPc = "returned" =>
        \A k \in DOMAIN uUrls :
            \/ StartsWith(Lower(uUrls[k]), <<"h","t","t","p",":","/","/">>)
            \/ StartsWith(Lower(uUrls[k]), <<"h","t","t","p","s",":","/","/">>)

====
